---------------------------- MODULE Spec2Model ----------------------------
(***************************************************************************)
(* A model of tools/pdf_to_pricebook.py: the literal decoder               *)
(* (decode_pdf_string), the operator scanner (iter_text_fragments) and     *)
(* the row assembler (the loop of extract_rows).                           *)
(*                                                                         *)
(* Characters are code points (naturals); a Python str is a sequence of    *)
(* code points.  Python indices are 0-based and are kept 0-based in the    *)
(* model: the character at Python index k of s is s[k + 1].                *)
(***************************************************************************)
EXTENDS Naturals, Integers, Sequences, FiniteSets, TLC

VARIABLES
    pc,          \* position of the program: which loop runs, or where it stopped
    raw,         \* decode_pdf_string: the argument
    result,      \* decode_pdf_string: the returned string
    streams,     \* iter_text_fragments: the STREAM_RE matches of pdf_bytes, in order
    m,           \* iter_text_fragments: number of matches taken from finditer so far
    text,        \* iter_text_fragments: the decoded text of the current payload
    pos,         \* iter_text_fragments: the scan position in text
    yielded,     \* iter_text_fragments: the fragments yielded so far
    fragments,   \* extract_rows: the fragment list
    i,           \* extract_rows: the cursor
    rows,        \* extract_rows: the accepted rows
    seen_codes,  \* extract_rows: the codes accepted so far
    trace        \* history of the iterations of the extract_rows loop

vars == <<pc, raw, result, streams, m, text, pos, yielded,
          fragments, i, rows, seen_codes, trace>>

decodeVars == <<raw, result>>
scanVars   == <<streams, m, text, pos, yielded>>
rowVars    == <<fragments, i, rows, seen_codes, trace>>

(***************************************************************************)
(* Bounds of the model.                                                    *)
(***************************************************************************)
\* raw literals over the full escape alphabet: length
MaxEsc == 2
\* raw literals over the octal alphabet: length
MaxRaw == 5

(***************************************************************************)
(* Strings.                                                                *)
(***************************************************************************)
\* The printable ASCII characters, code points 32..95 and 97..126.
PrintableLow  == " !\"#$%&'()*+,-./0123456789:;<=>?@ABCDEFGHIJKLMNOPQRSTUVWXYZ[\\]^_"
PrintableHigh == "abcdefghijklmnopqrstuvwxyz{|}~"

\* ord(c): the code point of a printable ASCII character, given as a
\* one-character string.
Ord(c) ==
    IF \E k \in 1..Len(PrintableLow) : SubSeq(PrintableLow, k, k) = c
    THEN 31 + (CHOOSE k \in 1..Len(PrintableLow) : SubSeq(PrintableLow, k, k) = c)
    ELSE 96 + (CHOOSE k \in 1..Len(PrintableHigh) : SubSeq(PrintableHigh, k, k) = c)

\* The Python str written as the TLA+ string s.
Str(s) == [k \in 1..Len(s) |-> Ord(SubSeq(s, k, k))]

Range(s) == {s[k] : k \in 1..Len(s)}

SeqsUpTo(S, n) == UNION {[1..k -> S] : k \in 0..n}

\* Python's s[a:b] for 0 <= a and 0 <= b.
Slice(s, a, b) == SubSeq(s, a + 1, IF b < Len(s) THEN b ELSE Len(s))

\* F applied to the value of v, with v evaluated once.
With(v, F(_)) == CHOOSE r \in {F(x) : x \in {v}} : TRUE

RECURSIVE Concat(_)
\* "".join(ss)
Concat(ss) == IF ss = <<>> THEN <<>> ELSE Head(ss) \o Concat(Tail(ss))

BACKSLASH == Ord("\\")
LPAREN    == Ord("(")
RPAREN    == Ord(")")
LBRACKET  == Ord("[")
DIGIT_0   == Ord("0")
DIGIT_9   == Ord("9")
UPPER_A   == Ord("A")
UPPER_Z   == Ord("Z")
LOWER_A   == Ord("a")
LOWER_Z   == Ord("z")
COMMA     == Ord(",")
FULLSTOP  == Ord(".")
LOWER_N   == Ord("n")
LOWER_R   == Ord("r")
LOWER_T   == Ord("t")
LOWER_B   == Ord("b")
LOWER_F   == Ord("f")
OctalDigits == Range(Str("01234567"))
\* The two show-text operator tokens.
OP_Tj == Str("Tj")
OP_TJ == Str("TJ")

(***************************************************************************)
(* decode_pdf_string                                                       *)
(***************************************************************************)
RECURSIVE OctRunUncapped(_, _, _)
\* OctRun without the bound "j < 3": every following octal digit is taken.
OctRunUncapped(r, i0, j) ==
    IF i0 + j < Len(r) /\ r[i0 + j + 1] \in OctalDigits
    THEN OctRunUncapped(r, i0, j + 1)
    ELSE j

RECURSIVE OctRun(_, _, _)
\* The inner while loop: the number j of octal digits taken, starting from
\* the digit at index i0 (0-based) of r.
OctRun(r, i0, j) ==
    IF i0 + j < Len(r) /\ j < 3 /\ r[i0 + j + 1] \in OctalDigits
    THEN OctRun(r, i0, j + 1)
    ELSE j

RECURSIVE IntBase8(_)
\* int(oct_digits, 8)
IntBase8(ds) ==
    IF ds = <<>> THEN 0
    ELSE 8 * IntBase8(SubSeq(ds, 1, Len(ds) - 1)) + (ds[Len(ds)] - DIGIT_0)

RECURSIVE DecodeLoop(_, _, _)
\* The while loop of decode_pdf_string from index i0 with the list res.
DecodeLoop(r, i0, res) ==
    IF i0 >= Len(r) THEN res
    ELSE
      LET char == r[i0 + 1] IN
      IF char = BACKSLASH THEN
        LET i1 == i0 + 1 IN
        IF i1 >= Len(r) THEN res
        ELSE
          LET esc == r[i1 + 1] IN
          IF esc \in {BACKSLASH, LPAREN, RPAREN} THEN
            DecodeLoop(r, i1 + 1, Append(res, esc))
          ELSE IF esc = LOWER_N THEN DecodeLoop(r, i1 + 1, Append(res, 10))
          ELSE IF esc = LOWER_R THEN DecodeLoop(r, i1 + 1, Append(res, 13))
          ELSE IF esc = LOWER_T THEN DecodeLoop(r, i1 + 1, Append(res, 9))
          ELSE IF esc = LOWER_B THEN DecodeLoop(r, i1 + 1, Append(res, 8))
          ELSE IF esc = LOWER_F THEN DecodeLoop(r, i1 + 1, Append(res, 12))
          ELSE IF esc \in OctalDigits THEN
            LET j == OctRun(r, i1, 1)
                oct_digits == SubSeq(r, i1 + 1, i1 + j)
            IN  DecodeLoop(r, (i1 + (j - 1)) + 1, Append(res, IntBase8(oct_digits)))
          ELSE DecodeLoop(r, i1 + 1, Append(res, esc))
      ELSE DecodeLoop(r, i0 + 1, Append(res, char))

decode_pdf_string(r) == With(r, LAMBDA body : DecodeLoop(body, 0, <<>>))

(***************************************************************************)
(* The decoder on its own: a raw literal body is drawn, and decoded.       *)
(***************************************************************************)
EscAlphabet == Range(Str("\\()nrtbf0178xA "))
OctAlphabet == Range(Str("\\1078n"))
Scenario5   == Str("\\( \\) \\\\ \\n \\101")

RawInputs ==
    SeqsUpTo(EscAlphabet, MaxEsc) \cup SeqsUpTo(OctAlphabet, MaxRaw) \cup {Scenario5}

InitDecode ==
    /\ pc = "decode"
    /\ raw \in RawInputs
    /\ result = <<>>
    /\ streams = <<>> /\ m = 0 /\ text = <<>> /\ pos = 0 /\ yielded = <<>>
    /\ fragments = <<>> /\ i = 0 /\ rows = <<>> /\ seen_codes = {} /\ trace = <<>>

Decode ==
    /\ pc = "decode"
    /\ result' = decode_pdf_string(raw)
    /\ pc' = "decoded"
    /\ UNCHANGED <<raw, scanVars, rowVars>>

NextDecode == Decode

SpecDecode == InitDecode /\ [][NextDecode]_vars

(***************************************************************************)
(* iter_text_fragments                                                     *)
(***************************************************************************)
\* text.find(pat, p) for a two-character pat: the lowest index >= p at which
\* pat occurs in t, or -1.
Find(t, pat, p) ==
    LET hits == {k \in p..(Len(t) - 2) : t[k + 1] = pat[1] /\ t[k + 2] = pat[2]}
    IN  IF hits = {} THEN -1 ELSE CHOOSE k \in hits : \A h \in hits : k <= h

\* text.rfind(c, 0, end) for a one-character c: the highest index < end at
\* which c occurs in t, or -1.
RFind(t, c, end) ==
    LET hits == {k \in 0..(end - 1) : t[k + 1] = c}
    IN  IF hits = {} THEN -1 ELSE CHOOSE k \in hits : \A h \in hits : k >= h

RECURSIVE TokenLoop(_, _, _)
\* The inner while loop of the array branch, entered just after a "(" with
\* the cursor k: the cursor it stops at and the token it collected.
TokenLoop(ra, k, token) ==
    IF k >= Len(ra) THEN [i |-> k, token |-> token]
    ELSE
      LET ch == ra[k + 1] IN
      IF ch = BACKSLASH /\ k + 1 < Len(ra)
      THEN TokenLoop(ra, k + 2, token \o <<ra[k + 1], ra[k + 2]>>)
      ELSE IF ch = RPAREN THEN [i |-> k, token |-> token]
      ELSE TokenLoop(ra, k + 1, Append(token, ch))

RECURSIVE ArrayLoop(_, _, _)
\* The outer while loop of the array branch over raw_array: the list
\* "fragments" of the decoded literals.
ArrayLoop(ra, k, frs) ==
    IF k >= Len(ra) THEN frs
    ELSE IF ra[k + 1] = LPAREN
    THEN With(TokenLoop(ra, k + 1, <<>>),
              LAMBDA t : ArrayLoop(ra, t.i, Append(frs, decode_pdf_string(t.token))))
    ELSE ArrayLoop(ra, k + 1, frs)

\* The operator occurrence the while-True loop takes next from position p:
\* kind "none" (break), "TJ" or "Tj", its index idx and the index start of
\* the opening delimiter found by rfind (-1 when there is none).
NextOp(t, p) ==
    LET idx_tj == Find(t, OP_Tj, p)
        idx_TJ == Find(t, OP_TJ, p)
    IN  IF idx_tj = -1 /\ idx_TJ = -1
        THEN [kind |-> "none", idx |-> -1, start |-> -1]
        ELSE IF idx_tj = -1 \/ (idx_TJ # -1 /\ idx_TJ < idx_tj)
        THEN [kind |-> "TJ", idx |-> idx_TJ, start |-> RFind(t, LBRACKET, idx_TJ)]
        ELSE [kind |-> "Tj", idx |-> idx_tj, start |-> RFind(t, LPAREN, idx_tj)]

\* What one iteration that found the occurrence op yields: a sequence of no
\* or one fragment.
Emitted(t, op) ==
    IF op.start = -1 THEN <<>>
    ELSE IF op.kind = "TJ"
    THEN With(Slice(t, op.start + 1, op.idx),
              LAMBDA raw_array :
                With(ArrayLoop(raw_array, 0, <<>>),
                     LAMBDA frs : IF frs # <<>> THEN <<Concat(frs)>> ELSE <<>>))
    ELSE With(Slice(t, op.start + 1, op.idx),
              LAMBDA raw_string : <<decode_pdf_string(raw_string)>>)

RECURSIVE ScanLoop(_, _, _)
\* The while-True loop over one decoded text, as a function: the fragments
\* it yields from position p on, after out.
ScanLoop(t, p, out) ==
    LET op == NextOp(t, p)
    IN  IF op.kind = "none" THEN out
        ELSE ScanLoop(t, op.idx + 2, out \o Emitted(t, op))

(***************************************************************************)
(* The container: the matches of STREAM_RE, each a payload that            *)
(* zlib.decompress either inflates (data is the decompressed text) or      *)
(* rejects (data is the payload as found).                                 *)
(***************************************************************************)
Payload(ok, data) == [inflates |-> ok, data |-> data]

\* StreamRejected without the try/except: the error ends the generator.
StreamRejectedRaises ==
    /\ pc = "streams"
    /\ m < Len(streams)
    /\ ~streams[m + 1].inflates
    /\ pc' = "exhausted"
    /\ UNCHANGED <<scanVars, decodeVars, rowVars>>

\* for match in STREAM_RE.finditer(pdf_bytes): the next payload does not
\* inflate; except ...: continue.
StreamRejected ==
    /\ pc = "streams"
    /\ m < Len(streams)
    /\ ~streams[m + 1].inflates
    /\ m' = m + 1
    /\ UNCHANGED <<pc, text, pos, yielded, streams, decodeVars, rowVars>>

\* The next payload inflates: text = decoded.decode("latin1"); pos = 0.
StreamInflated ==
    /\ pc = "streams"
    /\ m < Len(streams)
    /\ streams[m + 1].inflates
    /\ m' = m + 1
    /\ text' = streams[m + 1].data
    /\ pos' = 0
    /\ pc' = "scan"
    /\ UNCHANGED <<yielded, streams, decodeVars, rowVars>>

\* finditer is exhausted: the generator ends.
StreamsExhausted ==
    /\ pc = "streams"
    /\ m = Len(streams)
    /\ pc' = "exhausted"
    /\ UNCHANGED <<scanVars, decodeVars, rowVars>>

\* if idx_tj == -1 and idx_TJ == -1: break
ScanBreak ==
    /\ pc = "scan"
    /\ NextOp(text, pos).kind = "none"
    /\ pc' = "streams"
    /\ UNCHANGED <<scanVars, decodeVars, rowVars>>

\* SkipOperator leaving the scan position at the operator token: pos = idx.
SkipOperatorStays ==
    /\ pc = "scan"
    /\ \E op \in {NextOp(text, pos)} :
           /\ op.kind # "none"
           /\ op.start = -1
           /\ pos' = op.idx
    /\ UNCHANGED <<pc, streams, m, text, yielded, decodeVars, rowVars>>

\* An occurrence with no opening delimiter to its left: pos = idx + 2; continue
SkipOperator ==
    /\ pc = "scan"
    /\ \E op \in {NextOp(text, pos)} :
           /\ op.kind # "none"
           /\ op.start = -1
           /\ pos' = op.idx + 2
    /\ UNCHANGED <<pc, streams, m, text, yielded, decodeVars, rowVars>>

\* The array branch: TJ with a "[" to its left.
ShowArray ==
    /\ pc = "scan"
    /\ \E op \in {NextOp(text, pos)} :
           /\ op.kind = "TJ"
           /\ op.start # -1
           /\ yielded' = yielded \o Emitted(text, op)
           /\ pos' = op.idx + 2
    /\ UNCHANGED <<pc, streams, m, text, decodeVars, rowVars>>

\* The single-string branch: Tj with a "(" to its left.
ShowString ==
    /\ pc = "scan"
    /\ \E op \in {NextOp(text, pos)} :
           /\ op.kind = "Tj"
           /\ op.start # -1
           /\ yielded' = yielded \o Emitted(text, op)
           /\ pos' = op.idx + 2
    /\ UNCHANGED <<pc, streams, m, text, decodeVars, rowVars>>

(***************************************************************************)
(* The scanner's inputs.                                                   *)
(***************************************************************************)
\* a text as a run of lexical tokens: how many
MaxTokens == 5
\* a text as a run of operator phrases: how many
MaxPhrases == 2
\* payloads in a container of several
MaxStreams == 3

TokenPool ==
    {Str("("), Str(")"), Str("["), Str("]"), Str("\\"), Str("a"), Str("Tj"), Str("TJ")}

PhrasePool ==
    {Str("(a) Tj"), Str("(a\\(b)Tj"), Str("[(a)-1(b)] TJ"), Str("[(a\\)b)]TJ"),
     Str("[(a[b)] TJ"), Str("[1]TJ"), Str(" TJ"), Str("Tj ")}

Texts ==
    {Concat(ts) : ts \in SeqsUpTo(TokenPool, MaxTokens)}
    \cup {Concat(ps) : ps \in SeqsUpTo(PhrasePool, MaxPhrases)}

\* Payloads for containers of several: among them the cells of one price
\* list row, a lone code, an empty string, and two that do not inflate.
PayloadPool ==
    {Payload(TRUE, Str("(a)Tj[(b)]TJ")), Payload(TRUE, Str("[(c)(d)]TJ")),
     Payload(TRUE, Str("[()]TJ")),
     Payload(TRUE, Str("[(AB12)]TJ[(Minor )-20(repair)]TJ[(1,250.5)]TJ[(2 days)]TJ")),
     Payload(TRUE, Str("[(ab12)]TJ")),
     Payload(FALSE, Str("(x)Tj")), Payload(FALSE, Str("JFIF"))}

Containers ==
    {<<Payload(TRUE, t)>> : t \in Texts} \cup SeqsUpTo(PayloadPool, MaxStreams)

InitScan ==
    /\ pc = "streams"
    /\ streams \in Containers
    /\ m = 0 /\ text = <<>> /\ pos = 0 /\ yielded = <<>>
    /\ raw = <<>> /\ result = <<>>
    /\ fragments = <<>> /\ i = 0 /\ rows = <<>> /\ seen_codes = {} /\ trace = <<>>

NextScan ==
    \/ StreamRejected
    \/ StreamInflated
    \/ StreamsExhausted
    \/ ScanBreak
    \/ SkipOperator
    \/ ShowArray
    \/ ShowString

SpecScan == InitScan /\ [][NextScan]_vars

(***************************************************************************)
(* extract_rows: str.strip, str.split, str.upper, CODE_RE, PRICE_RE        *)
(***************************************************************************)
\* The characters str.strip() and str.split() take for whitespace, among
\* the code points of latin1.
Whitespace == {9, 10, 11, 12, 13, 28, 29, 30, 31, 32, 133, 160}

IsDigit(c) == c >= DIGIT_0 /\ c <= DIGIT_9
IsUpper(c) == c >= UPPER_A /\ c <= UPPER_Z
IsLower(c) == c >= LOWER_A /\ c <= LOWER_Z
IsLetter(c) == IsUpper(c) \/ IsLower(c)

RECURSIVE Strip(_)
\* s.strip()
Strip(s) ==
    IF s = <<>> THEN s
    ELSE IF Head(s) \in Whitespace THEN Strip(Tail(s))
    ELSE IF s[Len(s)] \in Whitespace THEN Strip(SubSeq(s, 1, Len(s) - 1))
    ELSE s

RECURSIVE SplitLoop(_, _, _)
\* s.split(): the maximal runs of non-whitespace characters of s; words are
\* the finished runs and cur the run being read.
SplitLoop(s, words, cur) ==
    IF s = <<>> THEN (IF cur = <<>> THEN words ELSE Append(words, cur))
    ELSE IF Head(s) \in Whitespace
    THEN SplitLoop(Tail(s), IF cur = <<>> THEN words ELSE Append(words, cur), <<>>)
    ELSE SplitLoop(Tail(s), words, Append(cur, Head(s)))

RECURSIVE JoinSpace(_)
\* " ".join(words)
JoinSpace(words) ==
    IF words = <<>> THEN <<>>
    ELSE IF Len(words) = 1 THEN words[1]
    ELSE words[1] \o <<32>> \o JoinSpace(Tail(words))

\* " ".join(s.split())
CollapseWhitespace(s) == With(SplitLoop(s, <<>>, <<>>), JoinSpace)

\* s.upper(), for the ASCII letters.
Upper(s) == [k \in 1..Len(s) |-> IF IsLower(s[k]) THEN s[k] - 32 ELSE s[k]]

\* CODE_RE without the lookahead for a digit.
CodeReNoDigit(s) ==
    /\ {k \in 1..Len(s) : IsLetter(s[k])} # {}
    /\ Len(s) >= 4 /\ Len(s) <= 8
    /\ \A k \in 1..Len(s) : IsLetter(s[k]) \/ IsDigit(s[k])

\* CODE_RE.match(s): ^(?=.*[A-Za-z])(?=.*\d)[A-Za-z0-9]{4,8}$
CODE_RE(s) ==
    /\ {k \in 1..Len(s) : IsLetter(s[k])} # {}
    /\ {k \in 1..Len(s) : IsDigit(s[k])} # {}
    /\ Len(s) >= 4 /\ Len(s) <= 8
    /\ \A k \in 1..Len(s) : IsLetter(s[k]) \/ IsDigit(s[k])

RECURSIVE DigitRun(_, _, _)
\* How many of the characters of s from index k on are digits, up to cap.
DigitRun(s, k, cap) ==
    IF cap > 0 /\ k < Len(s) /\ IsDigit(s[k + 1])
    THEN 1 + DigitRun(s, k + 1, cap - 1)
    ELSE 0

RECURSIVE GroupLoop(_, _)
\* (?:,\d{3})* from index k: the index after the last group taken.
GroupLoop(s, k) ==
    IF k < Len(s) /\ s[k + 1] = COMMA /\ DigitRun(s, k + 1, 3) = 3
    THEN GroupLoop(s, k + 4)
    ELSE k

\* (?:\.\d{1,2})? from index k: the index after the fraction, if one is taken.
FractionEnd(s, k) ==
    IF k < Len(s) /\ s[k + 1] = FULLSTOP /\ DigitRun(s, k + 1, 2) >= 1
    THEN k + 1 + DigitRun(s, k + 1, 2)
    ELSE k

\* PRICE_RE.search(s): (\d{1,3}(?:,\d{3})*(?:\.\d{1,2})?), the leftmost match,
\* each part taking as much as it can.
PRICE_RE(s) ==
    LET digits == {k \in 0..(Len(s) - 1) : IsDigit(s[k + 1])}
    IN  IF digits = {} THEN [found |-> FALSE, group1 |-> <<>>]
        ELSE With(CHOOSE k \in digits : \A d \in digits : k <= d,
                  LAMBDA start :
                    With(GroupLoop(s, start + DigitRun(s, start, 3)),
                         LAMBDA p2 :
                           [found |-> TRUE,
                            group1 |-> Slice(s, start, FractionEnd(s, p2))]))

\* tok.replace(",", "")
RemoveCommas(tok) == SelectSeq(tok, LAMBDA c : c # COMMA)

(***************************************************************************)
(* float(num): the IEEE 754 double nearest to the decimal num, ties to     *)
(* even.  A natural too large for a machine word is a sequence of decimal  *)
(* digits (values 0..9), most significant first, <<>> being zero.  The     *)
(* double is kept as its exact decimal expansion, the string               *)
(* format(Decimal(x), "f"): "150", "1234.5", "0.01000000000000000020816..."*)
(***************************************************************************)
\* ds without its leading zeros.
Trim(ds) ==
    LET nz == {k \in 1..Len(ds) : ds[k] # 0}
    IN  IF nz = {} THEN <<>>
        ELSE SubSeq(ds, CHOOSE k \in nz : \A h \in nz : k <= h, Len(ds))

\* 2 * ds + b, for a binary digit b.
Twice(ds, b) ==
    LET n == Len(ds)
        body == [k \in 1..n |->
                    (2 * ds[k] + (IF k = n THEN b
                                  ELSE IF ds[k + 1] >= 5 THEN 1 ELSE 0)) % 10]
    IN  IF n = 0 THEN (IF b = 1 THEN <<1>> ELSE <<>>)
        ELSE IF ds[1] >= 5 THEN <<1>> \o body ELSE body

\* ds \div 2
Half(ds) ==
    Trim([k \in 1..Len(ds) |->
             ((IF k > 1 /\ ds[k - 1] % 2 = 1 THEN 10 ELSE 0) + ds[k]) \div 2])

RECURSIVE Repeat(_, _, _)
\* F applied 2^k times to x.
Repeat(F(_), x, k) ==
    IF k = 0 THEN F(x) ELSE With(Repeat(F, x, k - 1), LAMBDA t : Repeat(F, t, k - 1))

\* F applied n times or more to x, for a step F that leaves a finished state
\* as it is.
Iterate(F(_), x, n) ==
    With(CHOOSE k \in 0..30 : 2^k >= n /\ (k = 0 \/ 2^(k - 1) < n),
         LAMBDA k : With(x, LAMBDA x0 : Repeat(F, x0, k)))

\* One doubling of st.digits, while any is left to do.
ShiftStep(st) ==
    IF st.left = 0 THEN st
    ELSE [digits |-> Twice(st.digits, 0), left |-> st.left - 1]

\* ds * 2^s
ShiftLeft(ds, s) == Iterate(ShiftStep, [digits |-> ds, left |-> s], s).digits

\* The lowest binary digit of st.rest moved to the front of st.bits.
BitStep(st) ==
    IF st.rest = <<>> THEN st
    ELSE [rest |-> Half(st.rest), bits |-> <<st.rest[Len(st.rest)] % 2>> \o st.bits]

\* The binary digits of ds, most significant first (fewer than 4 * Len(ds)).
Bits(ds) == Iterate(BitStep, [rest |-> ds, bits |-> <<>>], 4 * Len(ds)).bits

\* The next binary digit of st.bits appended to st.digits.
FromBitsStep(st) ==
    IF st.k > Len(st.bits) THEN st
    ELSE [st EXCEPT !.digits = Twice(st.digits, st.bits[st.k]), !.k = st.k + 1]

\* The number whose binary digits are bs.
FromBits(bs) ==
    Iterate(FromBitsStep, [bits |-> bs, k |-> 1, digits |-> <<>>], Len(bs)).digits

\* bs + 1, for binary digits bs.
Successor(bs) ==
    LET zeros == {k \in 1..Len(bs) : bs[k] = 0}
    IN  IF zeros = {} THEN <<1>> \o [k \in 1..Len(bs) |-> 0]
        ELSE LET z == CHOOSE k \in zeros : \A h \in zeros : k >= h
             IN  [k \in 1..Len(bs) |-> IF k < z THEN bs[k] ELSE IF k = z THEN 1 ELSE 0]

\* One halving of st.digits / 10^st.scale, while st.e is negative: a last
\* digit that is odd leaves a 5 in one more decimal place.
ScaleStep(st) ==
    IF st.e >= 0 THEN st
    ELSE IF st.digits[Len(st.digits)] % 2 = 0
    THEN [st EXCEPT !.digits = Half(st.digits), !.e = st.e + 1]
    ELSE [digits |-> Half(Append(st.digits, 0)), scale |-> st.scale + 1, e |-> st.e + 1]

\* ds * 2^e written exactly as digits / 10^scale.
Scaled(ds, e) ==
    IF e >= 0 THEN [digits |-> ShiftLeft(ds, e), scale |-> 0, e |-> 0]
    ELSE Iterate(ScaleStep, [digits |-> ds, scale |-> 0, e |-> e], 0 - e)

\* The string of x.digits / 10^x.scale: the integer part, and the fraction
\* after a "." when there is one.
Format(x) ==
    LET n == Len(x.digits)
        chars(ds) == [k \in 1..Len(ds) |-> DIGIT_0 + ds[k]]
        int == IF n > x.scale THEN SubSeq(x.digits, 1, n - x.scale) ELSE <<0>>
        frac == IF n >= x.scale THEN SubSeq(x.digits, n - x.scale + 1, n)
                ELSE [k \in 1..(x.scale - n) |-> 0] \o x.digits
    IN  chars(int) \o (IF x.scale = 0 THEN <<>> ELSE <<FULLSTOP>> \o chars(frac))

\* sh \div 10^f in binary digits, and whether the division left a remainder.
Quotient(sh, f) ==
    [bits    |-> Bits(SubSeq(sh, 1, Len(sh) - f)),
     inexact |-> \E k \in (Len(sh) - f + 1)..Len(sh) : sh[k] # 0]

\* The double nearest to a number between q.bits / 2^s and one unit more (q
\* has 55 binary digits or more, and q.inexact says the number is above
\* q.bits): the first 53 digits, rounded on the 54th, ties to even; beyond
\* the largest double it is infinity.
RoundToDouble(q, s) ==
    LET bs == q.bits
        sticky == q.inexact \/ \E k \in 55..Len(bs) : bs[k] = 1
        up == bs[54] = 1 /\ (sticky \/ bs[53] = 1)
        mantissa == IF up THEN Successor(SubSeq(bs, 1, 53)) ELSE SubSeq(bs, 1, 53)
        e == Len(bs) - 53 - s
    IN  IF Len(mantissa) + e > 1024 THEN Str("Infinity")
        ELSE With(FromBits(mantissa), LAMBDA ds : With(Scaled(ds, e), Format))

\* The double nearest to the decimal num, digits with an optional "." and
\* fraction digits: the digits ds of num, f of them after the ".", are
\* scaled by 2^s so that the quotient by 10^f has 55 binary digits or more.
NearestDouble(num) ==
    LET dots == {k \in 1..Len(num) : num[k] = FULLSTOP}
        f == IF dots = {} THEN 0 ELSE Len(num) - (CHOOSE k \in dots : TRUE)
        digits == SelectSeq(num, IsDigit)
    IN  With(Trim([k \in 1..Len(digits) |-> digits[k] - DIGIT_0]),
             LAMBDA ds :
               IF ds = <<>> THEN Str("0")
               ELSE LET need == 55 + 4 * f - 3 * (Len(ds) - 1)
                        s == IF need > 0 THEN need ELSE 0
                    IN  With(ShiftLeft(ds, s),
                             LAMBDA sh :
                               With(Quotient(sh, f),
                                    LAMBDA q : RoundToDouble(q, s))))

\* The doubles of the numerals that occur in the inputs enumerated below,
\* computed once: <<num, NearestDouble(num)>>.
Doubles ==
    {<<num, NearestDouble(num)>> :
        num \in {Str("1"), Str("100"), Str("150.00"), Str("1234.50"),
                 Str("123"), Str("12.5"), Str("12"), Str("12.34"), Str("5"), Str("7"),
                 Str("1234567.8"), Str("0"), Str("2"), Str("1250.5"),
                 Str("999999999999999"), Str("9999999999999.99"),
                 Str("9007199254740993"), Str("70368744177664.01"),
                 Str("99999999999999999.99")}}

\* float(num)
float(num) ==
    IF \E c \in Doubles : c[1] = num
    THEN (CHOOSE c \in Doubles : c[1] = num)[2]
    ELSE NearestDouble(num)

\* The row dictionary built for a code candidate at index k.
BuildRow(frs, k) ==
    [code        |-> With(Strip(frs[k + 1]), Upper),
     description |-> CollapseWhitespace(frs[k + 2]),
     price       |-> With(RemoveCommas(PRICE_RE(frs[k + 3]).group1), float)]

(***************************************************************************)
(* The while loop of extract_rows, one action for each way through an      *)
(* iteration.  trace records, for each iteration, the cursor it ran at and *)
(* the way it took.                                                        *)
(***************************************************************************)
Logged(step) == Append(trace, [at |-> i, step |-> step])

\* while i < len(fragments) fails: return rows
ReturnRows ==
    /\ pc = "rows"
    /\ i >= Len(fragments)
    /\ pc' = "returned"
    /\ UNCHANGED <<rowVars, scanVars, decodeVars>>

\* if not candidate: i += 1; continue
SkipEmpty ==
    /\ pc = "rows"
    /\ i < Len(fragments)
    /\ \E candidate \in {Strip(fragments[i + 1])} : candidate = <<>>
    /\ i' = i + 1
    /\ trace' = Logged("empty")
    /\ UNCHANGED <<pc, fragments, rows, seen_codes, scanVars, decodeVars>>

\* CODE_RE does not match: i += 1
NotCode ==
    /\ pc = "rows"
    /\ i < Len(fragments)
    /\ \E candidate \in {Strip(fragments[i + 1])} :
           candidate # <<>> /\ ~CODE_RE(candidate)
    /\ i' = i + 1
    /\ trace' = Logged("not_code")
    /\ UNCHANGED <<pc, fragments, rows, seen_codes, scanVars, decodeVars>>

\* if i + 2 >= len(fragments): break
TooShort ==
    /\ pc = "rows"
    /\ i < Len(fragments)
    /\ \E candidate \in {Strip(fragments[i + 1])} : CODE_RE(candidate)
    /\ i + 2 >= Len(fragments)
    /\ pc' = "returned"
    /\ trace' = Logged("short")
    /\ UNCHANGED <<fragments, i, rows, seen_codes, scanVars, decodeVars>>

\* NoPrice advancing past the whole would-be row: i += 4.
NoPriceSkipsRow ==
    /\ pc = "rows"
    /\ i < Len(fragments)
    /\ \E candidate \in {Strip(fragments[i + 1])} : CODE_RE(candidate)
    /\ i + 2 < Len(fragments)
    /\ \E price_match \in {PRICE_RE(fragments[i + 3])} : ~price_match.found
    /\ i' = i + 4
    /\ trace' = Logged("no_price")
    /\ UNCHANGED <<pc, fragments, rows, seen_codes, scanVars, decodeVars>>

\* if not price_match: i += 1; continue
NoPrice ==
    /\ pc = "rows"
    /\ i < Len(fragments)
    /\ \E candidate \in {Strip(fragments[i + 1])} : CODE_RE(candidate)
    /\ i + 2 < Len(fragments)
    /\ \E price_match \in {PRICE_RE(fragments[i + 3])} : ~price_match.found
    /\ i' = i + 1
    /\ trace' = Logged("no_price")
    /\ UNCHANGED <<pc, fragments, rows, seen_codes, scanVars, decodeVars>>

\* AppendRow without the test "code not in seen_codes".
AppendRowUnchecked ==
    /\ pc = "rows"
    /\ i < Len(fragments)
    /\ \E candidate \in {Strip(fragments[i + 1])} : CODE_RE(candidate)
    /\ i + 2 < Len(fragments)
    /\ \E price_match \in {PRICE_RE(fragments[i + 3])} : price_match.found
    /\ \E row \in {BuildRow(fragments, i)} :
           /\ rows' = Append(rows, row)
           /\ seen_codes' = seen_codes \cup {row.code}
    /\ i' = i + 4
    /\ trace' = Logged("append")
    /\ UNCHANGED <<pc, fragments, scanVars, decodeVars>>

\* AppendRow putting the row at the head of rows: rows.insert(0, ...).
AppendRowInserts ==
    /\ pc = "rows"
    /\ i < Len(fragments)
    /\ \E candidate \in {Strip(fragments[i + 1])} : CODE_RE(candidate)
    /\ i + 2 < Len(fragments)
    /\ \E price_match \in {PRICE_RE(fragments[i + 3])} : price_match.found
    /\ \E row \in {BuildRow(fragments, i)} :
           /\ row.code \notin seen_codes
           /\ rows' = <<row>> \o rows
           /\ seen_codes' = seen_codes \cup {row.code}
    /\ i' = i + 4
    /\ trace' = Logged("append")
    /\ UNCHANGED <<pc, fragments, scanVars, decodeVars>>

\* if code not in seen_codes: rows.append(...); seen_codes.add(code); i += 4
AppendRow ==
    /\ pc = "rows"
    /\ i < Len(fragments)
    /\ \E candidate \in {Strip(fragments[i + 1])} : CODE_RE(candidate)
    /\ i + 2 < Len(fragments)
    /\ \E price_match \in {PRICE_RE(fragments[i + 3])} : price_match.found
    /\ \E row \in {BuildRow(fragments, i)} :
           /\ row.code \notin seen_codes
           /\ rows' = Append(rows, row)
           /\ seen_codes' = seen_codes \cup {row.code}
    /\ i' = i + 4
    /\ trace' = Logged("append")
    /\ UNCHANGED <<pc, fragments, scanVars, decodeVars>>

\* The code is in seen_codes: i += 4
DropDuplicate ==
    /\ pc = "rows"
    /\ i < Len(fragments)
    /\ \E candidate \in {Strip(fragments[i + 1])} : CODE_RE(candidate)
    /\ i + 2 < Len(fragments)
    /\ \E price_match \in {PRICE_RE(fragments[i + 3])} : price_match.found
    /\ \E row \in {BuildRow(fragments, i)} : row.code \in seen_codes
    /\ i' = i + 4
    /\ trace' = Logged("duplicate")
    /\ UNCHANGED <<pc, fragments, rows, seen_codes, scanVars, decodeVars>>

(***************************************************************************)
(* The row assembler's inputs.                                             *)
(***************************************************************************)
\* fragments in a list over CellPool
MaxFrags == 8
\* fragments in a list over LongPool
MaxLong == 7

CodeCells ==
    {Str("ABCD1"), Str("abcd1"), Str(" Ab12 "), Str("AB1"), Str("ABCDEFG1"),
     Str("ABCDEFGH1"), Str("ABCD"), Str("1234"), Str("AB-12"), Str("AB 12"),
     Str(""), Str("  ")}

DescCells ==
    {Str("Minor repair"), <<9>> \o Str(" Minor") \o <<10, 32>> \o Str("repair  "), Str("")}

PriceCells ==
    {Str("150.00"), Str("1,234.50"), Str("1234.50"), Str("GBP 12.5 each"),
     Str("1,23"), Str("12.345"), Str("n/a"), Str(".5"), Str("-7"),
     Str("1,234,567.8"), Str("0"), Str("7."), Str("2 days"),
     Str("999,999,999,999,999"), Str("9,999,999,999,999.99"),
     Str("9,007,199,254,740,993"), Str("70,368,744,177,664.01"),
     Str("99,999,999,999,999,999.99")}

\* Two codes and a cell with no digit in it.
CellPool == {Str("ABCD1"), Str("P100"), Str("desc")}

\* CellPool and a second spelling of the first code.
LongPool == CellPool \cup {Str("abcd1 ")}

Scenario1 == <<Str("ABCD1"), Str("Minor repair"), Str("150.00"), Str("2 days")>>
Scenario2 == <<Str("x"), Str("ABCD1"), Str("desc"), Str("1,234.50"), Str("lead")>>

FragmentLists ==
    {<<c, d, p>> : c \in CodeCells, d \in DescCells, p \in PriceCells}
    \cup SeqsUpTo(CellPool, MaxFrags)
    \cup SeqsUpTo(LongPool, MaxLong)
    \cup {Scenario1, Scenario2}

InitRows ==
    /\ pc = "rows"
    /\ fragments \in FragmentLists
    /\ i = 0 /\ rows = <<>> /\ seen_codes = {} /\ trace = <<>>
    /\ raw = <<>> /\ result = <<>>
    /\ streams = <<>> /\ m = 0 /\ text = <<>> /\ pos = 0 /\ yielded = <<>>

NextRows ==
    \/ ReturnRows
    \/ SkipEmpty
    \/ NotCode
    \/ TooShort
    \/ NoPrice
    \/ AppendRow
    \/ DropDuplicate

SpecRows == InitRows /\ [][NextRows]_vars

(***************************************************************************)
(* extract_rows as a whole: the fragments of the container are listed,     *)
(* then assembled into rows.                                               *)
(***************************************************************************)
\* fragments = list(iter_text_fragments(pdf_bytes)); rows = []; i = 0
ListFragments ==
    /\ pc = "exhausted"
    /\ fragments' = yielded
    /\ i' = 0 /\ rows' = <<>> /\ seen_codes' = {} /\ trace' = <<>>
    /\ pc' = "rows"
    /\ UNCHANGED <<scanVars, decodeVars>>

Init == InitScan

Next == NextScan \/ ListFragments \/ NextRows

\* The program is single-threaded and runs to completion: a step that can
\* be taken is taken.
Spec == Init /\ [][Next]_vars /\ WF_vars(Next)

(***************************************************************************)
(* Properties of the literal decoder.                                      *)
(***************************************************************************)
\* The character a backslash followed by e stands for, e not an octal digit.
EscapeChar(e) ==
    CASE e = LOWER_N -> 10
      [] e = LOWER_R -> 13
      [] e = LOWER_T -> 9
      [] e = LOWER_B -> 8
      [] e = LOWER_F -> 12
      [] OTHER -> e

\* The code point written by one to three octal digits.
OctalValue(ds) ==
    LET d(k) == ds[k] - DIGIT_0
    IN  CASE Len(ds) = 1 -> d(1)
          [] Len(ds) = 2 -> 8 * d(1) + d(2)
          [] Len(ds) = 3 -> 64 * d(1) + 8 * d(2) + d(3)

\* The length of the longest run of octal digits, at most three, that s
\* starts with.
OctalPrefix(s) ==
    LET runs == {n \in 0..3 : n <= Len(s) /\ \A k \in 1..n : s[k] \in OctalDigits}
    IN  CHOOSE n \in runs : \A n2 \in runs : n >= n2

RECURSIVE ExpectedDecoding(_)
\* The decoding of a literal body by escape class, read from its head.
ExpectedDecoding(s) ==
    IF s = <<>> THEN <<>>
    ELSE IF Head(s) # BACKSLASH THEN <<Head(s)>> \o ExpectedDecoding(Tail(s))
    ELSE IF Len(s) = 1 THEN <<>>
    ELSE LET after == Tail(s)
             n == OctalPrefix(after)
         IN  IF n > 0
             THEN <<OctalValue(SubSeq(after, 1, n))>>
                    \o ExpectedDecoding(SubSeq(after, n + 1, Len(after)))
             ELSE <<EscapeChar(Head(after))>> \o ExpectedDecoding(Tail(after))

Scenario5Decoded == Str("( ) \\ ") \o <<10>> \o Str(" A")

\* C7: decode_pdf_string maps every raw literal body to its decoding by
\* escape class (backslash and parens, the named control escapes, one to
\* three octal digits, any other escaped character, unescaped characters),
\* drops a lone trailing backslash, and decodes the body of scenario 5 to
\* "( ) \ ", a newline, a space and "A".
C7_LiteralDecoder ==
    pc = "decoded" =>
        /\ result = ExpectedDecoding(raw)
        /\ raw = Scenario5 => result = Scenario5Decoded

\* C7 witness: the body of scenario 5 has been decoded.
C7_Witness ==
    /\ pc = "decoded"
    /\ raw = Scenario5
    /\ result = Scenario5Decoded

(***************************************************************************)
(* Properties of the operator scanner.                                     *)
(***************************************************************************)
IsPrefix(a, b) == Len(a) <= Len(b) /\ a = SubSeq(b, 1, Len(a))

\* The indices of the operator tokens of t.
Occurrences(t) ==
    {k \in 0..(Len(t) - 2) :
        t[k + 1] = OP_Tj[1] /\ (t[k + 2] = OP_Tj[2] \/ t[k + 2] = OP_TJ[2])}

\* The occurrence at index k of t, with the opening delimiter rfind gives it.
OpAt(t, k) ==
    IF t[k + 2] = OP_TJ[2]
    THEN [kind |-> "TJ", idx |-> k, start |-> RFind(t, LBRACKET, k)]
    ELSE [kind |-> "Tj", idx |-> k, start |-> RFind(t, LPAREN, k)]

RECURSIVE InOrder(_, _)
\* The fragments of the occurrences ks of t, from the leftmost to the rightmost.
InOrder(t, ks) ==
    IF ks = {} THEN <<>>
    ELSE LET k == CHOOSE x \in ks : \A y \in ks : x <= y
         IN  Emitted(t, OpAt(t, k)) \o InOrder(t, ks \ {k})

RECURSIVE WithoutRejected(_)
\* The fragments of the payloads of ss that inflate, in container order, as
\* if the others were absent.
WithoutRejected(ss) ==
    IF ss = <<>> THEN <<>>
    ELSE (IF Head(ss).inflates THEN InOrder(Head(ss).data, Occurrences(Head(ss).data))
          ELSE <<>>) \o WithoutRejected(Tail(ss))

\* C8: a payload that does not inflate contributes no fragment and ends
\* nothing: after m payloads the fragments yielded are those of the inflating
\* ones among them, in container order and operator order, and when the
\* generator is exhausted they are those of the whole container.
C8_RejectedPayloads ==
    /\ pc = "streams" => yielded = WithoutRejected(SubSeq(streams, 1, m))
    /\ pc = "scan" =>
          /\ IsPrefix(WithoutRejected(SubSeq(streams, 1, m - 1)), yielded)
          /\ IsPrefix(yielded, WithoutRejected(SubSeq(streams, 1, m)))
    /\ pc = "exhausted" => m = Len(streams) /\ yielded = WithoutRejected(streams)

\* C8 witness: a container is exhausted in which a rejected payload, whose
\* bytes hold a show-text operator, lies between two payloads that yielded.
C8_Witness ==
    /\ pc = "exhausted"
    /\ \E a, b, c \in 1..Len(streams) :
          /\ a < b /\ b < c
          /\ streams[a].inflates /\ ScanLoop(streams[a].data, 0, <<>>) # <<>>
          /\ ~streams[b].inflates /\ ScanLoop(streams[b].data, 0, <<>>) # <<>>
          /\ streams[c].inflates /\ ScanLoop(streams[c].data, 0, <<>>) # <<>>
    /\ Len(yielded) >= 2

RECURSIVE BackslashRun(_, _)
\* The number of consecutive backslashes of t that end just before index k.
BackslashRun(t, k) ==
    IF k > 0 /\ t[k] = BACKSLASH THEN 1 + BackslashRun(t, k - 1) ELSE 0

\* The character at index k of t is escaped by a backslash.
IsEscaped(t, k) == BackslashRun(t, k) % 2 = 1

\* The index of the unescaped ")" that immediately precedes the operator
\* token at idx (whitespace apart), or -1.
LiteralClose(t, idx) ==
    LET ks == {k \in 0..(idx - 1) :
                  /\ t[k + 1] = RPAREN /\ ~IsEscaped(t, k)
                  /\ \A j \in (k + 1)..(idx - 1) : t[j + 1] \in Whitespace}
    IN  IF ks = {} THEN -1 ELSE CHOOSE k \in ks : TRUE

RECURSIVE LiteralOpen(_, _, _)
\* The index of the unescaped "(" that matches a ")" to the right of index
\* k, depth pairs of parentheses being open in between; or -1.
LiteralOpen(t, k, depth) ==
    IF k < 0 THEN -1
    ELSE IF t[k + 1] = RPAREN /\ ~IsEscaped(t, k) THEN LiteralOpen(t, k - 1, depth + 1)
    ELSE IF t[k + 1] = LPAREN /\ ~IsEscaped(t, k)
    THEN (IF depth = 0 THEN k ELSE LiteralOpen(t, k - 1, depth - 1))
    ELSE LiteralOpen(t, k - 1, depth)

\* C5: for a Tj with a "(" to its left whose operand is a closed literal, one
\* fragment is yielded, the decoding of the literal's body: from just after
\* its opening "(" to its closing unescaped ")", the ")" and what follows it
\* left out, an escaped "\(" not taken for the opening.
C5_SingleStringForm ==
    [][ LET op == NextOp(text, pos)
            close == LiteralClose(text, op.idx)
            open == LiteralOpen(text, close - 1, 0)
        IN  (/\ pc = "scan" /\ op.kind = "Tj" /\ op.start # -1
             /\ close # -1 /\ open # -1)
            => yielded' = Append(yielded, decode_pdf_string(Slice(text, open + 1, close)))
      ]_vars

RECURSIVE OperandScan(_, _, _, _, _)
\* A left-to-right reading of the indices k..(idx - 1) of t, where depth
\* counts the string literals open at k (parentheses nest inside a literal
\* and a backslash escapes the next character): open is the index of the
\* last "[" outside a literal (as given when there is none), and inlit
\* whether idx lies inside a literal.
OperandScan(t, k, idx, depth, open) ==
    IF k >= idx THEN [open |-> open, inlit |-> depth > 0 \/ k > idx]
    ELSE LET ch == t[k + 1] IN
         IF depth > 0
         THEN (IF ch = BACKSLASH THEN OperandScan(t, k + 2, idx, depth, open)
               ELSE IF ch = LPAREN THEN OperandScan(t, k + 1, idx, depth + 1, open)
               ELSE IF ch = RPAREN THEN OperandScan(t, k + 1, idx, depth - 1, open)
               ELSE OperandScan(t, k + 1, idx, depth, open))
         ELSE IF ch = LPAREN THEN OperandScan(t, k + 1, idx, 1, open)
         ELSE OperandScan(t, k + 1, idx, 0, IF ch = LBRACKET THEN k ELSE open)

\* C6: for a TJ with a "[" to its left (the token itself not lying in a
\* string literal), the fragment yielded is the concatenation of the decoded
\* literals of the operator's own operand array, which opens at the last "["
\* outside a string literal after the previous operator token; a TJ with no
\* array of its own yields nothing, so that the literals of an earlier
\* operator are not yielded again.
C6_ArrayForm ==
    [][ LET op == NextOp(text, pos)
            own == OperandScan(text, pos, op.idx, 0, -1)
            literals == ArrayLoop(Slice(text, own.open + 1, op.idx), 0, <<>>)
        IN  (pc = "scan" /\ op.kind = "TJ" /\ op.start # -1 /\ ~own.inlit)
            => IF own.open = -1 THEN yielded' = yielded
               ELSE literals # <<>> => yielded' = Append(yielded, Concat(literals))
      ]_vars

(***************************************************************************)
(* Properties of the row assembler.                                        *)
(***************************************************************************)
\* The normalised text of the fragment at index k: trimmed and uppercased.
CodeAt(k) == Upper(Strip(fragments[k + 1]))

\* The iterations that accepted a candidate (a code candidate with a numeric
\* token two fragments on), and those among them that appended a row.
Hits     == SelectSeq(trace, LAMBDA e : e.step \in {"append", "duplicate"})
Appended == SelectSeq(trace, LAMBDA e : e.step = "append")

\* The index of the first accepted candidate whose code is c.
FirstHit(c) ==
    LET ks == {k \in 1..Len(Hits) : CodeAt(Hits[k].at) = c}
    IN  Hits[CHOOSE k \in ks : \A k2 \in ks : k <= k2].at

\* C1: no two rows have the same code, in every state of the scan and in
\* the output; for every accepted candidate, the one row with its code is
\* the row built from the first accepted candidate of that code, and later
\* ones add nothing (there are as many rows as accepted codes).
C1_Dedup ==
    /\ \A a, b \in 1..Len(rows) : a # b => rows[a].code # rows[b].code
    /\ \A h \in 1..Len(Hits) :
          LET c == CodeAt(Hits[h].at)
              mine == {k \in 1..Len(rows) : rows[k].code = c}
          IN  /\ Cardinality(mine) = 1
              /\ \A k \in mine : rows[k] = BuildRow(fragments, FirstHit(c))
    /\ Len(rows) = Cardinality({CodeAt(Hits[h].at) : h \in 1..Len(Hits)})
    /\ seen_codes = {rows[k].code : k \in 1..Len(rows)}

\* C1 witness: a list has been scanned in which a later candidate, accepted
\* with the same code as an earlier one but written differently and with
\* another description, was dropped.
C1_Witness ==
    /\ pc = "returned"
    /\ \E a, b \in 1..Len(Hits) :
          /\ a < b
          /\ Hits[b].step = "duplicate"
          /\ CodeAt(Hits[a].at) = CodeAt(Hits[b].at)
          /\ fragments[Hits[a].at + 1] # fragments[Hits[b].at + 1]
          /\ BuildRow(fragments, Hits[a].at) # BuildRow(fragments, Hits[b].at)

\* C2: every row's code is uppercase alphanumeric, 4 to 8 characters long,
\* with at least one letter and one digit, and is the trimmed, uppercased
\* text of the fragment that started the row.
C2_CodePattern ==
    /\ Len(Appended) = Len(rows)
    /\ \A k \in 1..Len(rows) :
          LET code == rows[k].code IN
          /\ Len(code) \in 4..8
          /\ \A j \in 1..Len(code) : IsUpper(code[j]) \/ IsDigit(code[j])
          /\ \E j \in 1..Len(code) : IsUpper(code[j])
          /\ \E j \in 1..Len(code) : IsDigit(code[j])
          /\ code = Upper(Strip(fragments[Appended[k].at + 1]))

\* C2 witness: a row was started by a fragment written in mixed case with
\* blanks around it.
C2_Witness ==
    /\ pc = "returned"
    /\ \E k \in 1..Len(rows) :
          /\ fragments[Appended[k].at + 1] = Str(" Ab12 ")
          /\ rows[k].code = Str("AB12")

\* The index at which the normalised text c first appears in the list.
FirstAppearance(c) ==
    CHOOSE k \in 0..(Len(fragments) - 1) :
        /\ CodeAt(k) = c
        /\ \A k2 \in 0..(k - 1) : CodeAt(k2) # c

\* C3 as stated: of any two rows, the one whose code text first appears at
\* the smaller fragment index comes first.
C3_OrderByFirstAppearance ==
    \A a, b \in 1..Len(rows) :
        a < b => FirstAppearance(rows[a].code) < FirstAppearance(rows[b].code)

\* C3 as amended: the rows are in the order of the fragment indices at which
\* their codes were first accepted (met by the cursor as a code candidate
\* with a numeric token two fragments on); an earlier appearance of the code
\* text that the cursor rejected or passed over does not count.
C3_OrderByAcceptance ==
    /\ Len(Appended) = Len(rows)
    /\ \A k \in 1..Len(rows) :
          /\ rows[k].code = CodeAt(Appended[k].at)
          /\ Appended[k].at = FirstHit(rows[k].code)
    /\ \A a, b \in 1..Len(rows) :
          a < b => FirstHit(rows[a].code) < FirstHit(rows[b].code)

\* C3 witness: two rows were accepted, the text of the later row's code
\* appearing in the list before the fragment that started the earlier row.
C3_Witness ==
    /\ pc = "returned"
    /\ \E a, b \in 1..Len(rows) :
          /\ a < b
          /\ FirstAppearance(rows[b].code) < Appended[a].at
          /\ Appended[a].at < Appended[b].at

\* w is a numeric token: digits, optionally grouped by commas in runs of
\* three, with an optional fraction of one or two digits.
IsNumericToken(w) ==
    LET dots == {k \in 1..Len(w) : w[k] = FULLSTOP}
        whole == IF dots = {} THEN w
                 ELSE SubSeq(w, 1, (CHOOSE k \in dots : \A k2 \in dots : k <= k2) - 1)
        frac  == IF dots = {} THEN <<>>
                 ELSE SubSeq(w, (CHOOSE k \in dots : \A k2 \in dots : k <= k2) + 1, Len(w))
        commas == {k \in 1..Len(whole) : whole[k] = COMMA}
        first == IF commas = {} THEN Len(whole) + 1
                 ELSE CHOOSE k \in commas : \A k2 \in commas : k <= k2
    IN  /\ first \in 2..4
        /\ \A k \in 1..Len(whole) :
              IF k >= first /\ (k - first) % 4 = 0 THEN whole[k] = COMMA
              ELSE IsDigit(whole[k])
        /\ (Len(whole) - (first - 1)) % 4 = 0
        /\ dots # {} => Len(frac) \in 1..2 /\ \A k \in 1..Len(frac) : IsDigit(frac[k])

\* The first numeric token of s: it starts at the first digit of s and is
\* the longest token that starts there.  (s holds a digit.)
FirstNumericToken(s) ==
    LET start == CHOOSE k \in 1..Len(s) :
                     IsDigit(s[k]) /\ \A k2 \in 1..(k - 1) : ~IsDigit(s[k2])
        ends == {e \in start..Len(s) : IsNumericToken(SubSeq(s, start, e))}
    IN  SubSeq(s, start, CHOOSE e \in ends : \A e2 \in ends : e >= e2)

\* The digit values of the digits of w, leading zeros left out.
DigitValues(w) ==
    LET ds == SelectSeq(w, IsDigit)
    IN  Trim([k \in 1..Len(ds) |-> ds[k] - DIGIT_0])

\* The decimal value of the token w in hundredths, its commas left out, as
\* a sequence of digit values.
LiteralHundredths(w) ==
    LET dots == {k \in 1..Len(w) : w[k] = FULLSTOP}
        frac == IF dots = {} THEN 0 ELSE Len(w) - (CHOOSE k \in dots : TRUE)
    IN  DigitValues(w \o (IF frac = 0 THEN <<DIGIT_0, DIGIT_0>>
                           ELSE IF frac = 1 THEN <<DIGIT_0>> ELSE <<>>))

\* The number of significant digits of the token w.
SignificantDigits(w) == Len(DigitValues(w))

\* p is a number that is finite and not negative.
NonNegative(p) ==
    /\ p # <<>>
    /\ \A k \in 1..Len(p) : IsDigit(p[k]) \/ p[k] = FULLSTOP

\* ds + 1, for decimal digit values ds.
NextHundredth(ds) ==
    LET low == {k \in 1..Len(ds) : ds[k] # 9}
    IN  IF low = {} THEN <<1>> \o [k \in 1..Len(ds) |-> 0]
        ELSE LET z == CHOOSE k \in low : \A h \in low : k >= h
             IN  [k \in 1..Len(ds) |->
                     IF k < z THEN ds[k] ELSE IF k = z THEN ds[k] + 1 ELSE 0]

\* The price p rounded to the nearest hundredth (ties to even), in
\* hundredths, as a sequence of digit values.
PriceHundredths(p) ==
    LET dots == {k \in 1..Len(p) : p[k] = FULLSTOP}
        d == IF dots = {} THEN Len(p) + 1 ELSE CHOOSE k \in dots : TRUE
        frac == [k \in 1..(Len(p) - d) |-> p[d + k] - DIGIT_0]
        kept == [k \in 1..(d + 1) |->
                    IF k < d THEN p[k] - DIGIT_0
                    ELSE IF k - d < Len(frac) THEN frac[k - d + 1] ELSE 0]
        up == /\ Len(frac) > 2
              /\ \/ frac[3] > 5
                 \/ /\ frac[3] = 5
                    /\ \/ \E k \in 4..Len(frac) : frac[k] # 0
                       \/ kept[d + 1] % 2 = 1
    IN  Trim(IF up THEN NextHundredth(kept) ELSE kept)

\* C4 as stated: every row's price is non-negative and is the decimal value
\* of the first numeric token of the fragment two after the one that
\* started the row, its commas removed: "1,234.50" gives 1234.50 and
\* "150.00" gives 150.00.  The two are compared at the hundredth.
C4_PriceParsing ==
    /\ Len(Appended) = Len(rows)
    /\ \A k \in 1..Len(rows) :
          LET cell == fragments[Appended[k].at + 3] IN
          /\ NonNegative(rows[k].price)
          /\ PriceHundredths(rows[k].price) = LiteralHundredths(FirstNumericToken(cell))
          /\ cell = Str("1,234.50") => rows[k].price = Str("1234.5")
          /\ cell = Str("150.00") => rows[k].price = Str("150")

\* C4 within the precision of a double: every row's price is non-negative,
\* and when the first numeric token of the fragment two after the one that started the row has
\* at most 15 significant digits the price is, to the hundredth, the decimal
\* value of that token with its commas removed: "1,234.50" gives 1234.50
\* and "150.00" gives 150.00.
C4_PriceWithinPrecision ==
    /\ Len(Appended) = Len(rows)
    /\ \A k \in 1..Len(rows) :
          LET cell == fragments[Appended[k].at + 3] IN
          /\ NonNegative(rows[k].price)
          /\ SignificantDigits(FirstNumericToken(cell)) <= 15
                => PriceHundredths(rows[k].price)
                     = LiteralHundredths(FirstNumericToken(cell))
          /\ cell = Str("1,234.50") => rows[k].price = Str("1234.5")
          /\ cell = Str("150.00") => rows[k].price = Str("150")

\* C4 within the precision of a double, its case: a row took its price
\* from a token of 15 significant digits,
\* with comma groups and a fraction, and the price is the token's value to
\* the hundredth although the double is not that value exactly.
C4_Witness ==
    /\ pc = "returned"
    /\ \E k \in 1..Len(rows) :
          /\ fragments[Appended[k].at + 3] = Str("9,999,999,999,999.99")
          /\ rows[k].price # Str("9999999999999.99")
          /\ PriceHundredths(rows[k].price) = [n \in 1..15 |-> 9]

\* C9: the steps of the cursor.  At a code candidate followed by two
\* fragments: with no numeric token in fragment i+2 the cursor moves to i+1
\* and rows and seen codes stay; with one it moves to i+4, the row appended
\* or dropped.  An empty or non-candidate fragment moves it to i+1 and leaves
\* the rows.  And the three fragments after an accepted candidate are never
\* examined, while the one after a rejected candidate is.
C9_CursorSteps ==
    /\ [][ (pc = "rows" /\ i < Len(fragments)) =>
             LET cand == Strip(fragments[i + 1])
                 candidate == cand # <<>> /\ CODE_RE(cand)
                 follows == i + 2 < Len(fragments)
                 numeric == \E k \in 1..Len(fragments[i + 3]) : IsDigit(fragments[i + 3][k])
             IN  /\ (candidate /\ follows /\ ~numeric) =>
                        /\ i' = i + 1 /\ pc' = "rows"
                        /\ rows' = rows /\ seen_codes' = seen_codes
                 /\ (candidate /\ follows /\ numeric) =>
                        /\ i' = i + 4 /\ pc' = "rows"
                        /\ \/ rows' = rows
                           \/ rows' = Append(rows, rows'[Len(rows')])
                 /\ ~candidate => (i' = i + 1 /\ pc' = "rows" /\ rows' = rows)
         ]_vars
    /\ [](\A h \in 1..Len(trace) :
             /\ trace[h].step \in {"append", "duplicate"} =>
                   \A e \in 1..Len(trace) : trace[e].at \notin
                       {trace[h].at + 1, trace[h].at + 2, trace[h].at + 3}
             /\ (trace[h].step = "no_price" /\ h < Len(trace)) =>
                   trace[h + 1].at = trace[h].at + 1)

\* C9 witness: a scan rejected a candidate for want of a numeric token,
\* accepted the fragment after it as a candidate, and ended by dropping a
\* duplicate, the cursor four past it.
C9_Witness ==
    /\ pc = "returned"
    /\ \E h \in 1..(Len(trace) - 1) :
          /\ trace[h].step = "no_price"
          /\ trace[h + 1].step = "append"
    /\ trace[Len(trace)].step = "duplicate"
    /\ i = trace[Len(trace)].at + 4

(***************************************************************************)
(* Termination of the two loops.                                           *)
(***************************************************************************)
\* What C10 says of one step of the loops: an iteration of the scan moves
\* the position forward, to just past the operator token it took (also when
\* it skipped it), and the scan ends when no operator token lies ahead; an
\* iteration of the row loop moves the cursor forward by 1 or 4, and the loop
\* ends, the rows as they are, when the cursor is at the end of the list or
\* at a code candidate with fewer than two fragments after it.
LoopStep ==
    /\ (pc = "streams" /\ pc' # "exhausted") => m' = m + 1
    /\ (pc = "scan" /\ pc' = "scan") =>
          /\ pos' > pos
          /\ pos' - 2 \in Occurrences(text)
          /\ \A k \in Occurrences(text) : k < pos \/ k >= pos' - 2
    /\ (pc = "scan" /\ pc' # "scan") =>
          /\ pc' = "streams"
          /\ \A k \in Occurrences(text) : k < pos
    /\ (pc = "rows" /\ pc' = "rows") =>
          i' = i + 1 \/ i' = i + 4
    /\ (pc = "rows" /\ pc' # "rows") =>
          /\ pc' = "returned" /\ rows' = rows
          /\ \/ i >= Len(fragments)
             \/ /\ CODE_RE(Strip(fragments[i + 1]))
                /\ Len(fragments) - (i + 1) < 2

\* C10: both loops end: every run returns the rows; every step is a
\* LoopStep; and the position, the cursor and the count of payloads taken are
\* bounded by the text, the fragment list and the container.
C10_Termination ==
    /\ <>(pc = "returned")
    /\ [][LoopStep]_vars
    /\ [](m <= Len(streams) /\ pos <= Len(text) /\ i <= Len(fragments) + 3)

\* C10 witness: a container with an operator that was skipped for want of
\* an opening delimiter has been scanned to its end and the row loop, run
\* on its fragments, has returned.
C10_Witness ==
    /\ pc = "returned"
    /\ streams # <<>>
    /\ pos = Len(text)
    /\ \E k \in Occurrences(text) : OpAt(text, k).start = -1
    /\ fragments = yielded /\ fragments # <<>>
    /\ trace # <<>>

=============================================================================
